---- MODULE Spec2Model ----
(***************************************************************************)
(* A model of src/main.py: the Discord calendar bot with its PostgreSQL    *)
(* token table (google_tokens), the credential resolver                    *)
(* get_calendar_service, the slash-command handlers connect / events /     *)
(* addevent running as tasks of the bot's event loop, and the Flask routes *)
(* connect_google / oauth2callback running on the web server's threads.    *)
(*                                                                         *)
(* An optional value (Python's None or a value) is a set with at most one  *)
(* element: {} is None.                                                    *)
(***************************************************************************)
EXTENDS Integers, Sequences, FiniteSets, Bags, TLC

\* ---------------------------------------------------------------- bounds
NumUsers == 1
NumHandlers == 2
MaxTokens == 1

\* addevent's default for duration_minutes
DefaultDuration == 60

Users == 1..NumUsers

\* ------------------------------------------------------------ token blobs
\* A token_json text.  tok identifies the access token it carries (0: a token
\* issued before this process started, n > 0: the n-th token the provider
\* issued to this process), rt says whether it carries a refresh token, ok
\* whether json.loads / from_authorized_user_info accept the text;
\* grant names the grant that produced the access token.
Grants == {"initial", "code", "refresh"}
Blob == [tok : 0..MaxTokens, rt : BOOLEAN, ok : BOOLEAN, grant : Grants]

\* Rows the table may hold when the process starts: the table outlives the
\* process.  One well-formed blob and one text that does not deserialize.
InitialBlobs ==
    {[tok |-> 0, rt |-> TRUE, ok |-> TRUE, grant |-> "initial"],
     [tok |-> 0, rt |-> FALSE, ok |-> FALSE, grant |-> "initial"]}

\* The argument values of addevent(name, when, duration_minutes)
Whens == {"tomorrow at 9am", "asdkjhasd"}
Durations == {30, DefaultDuration}

\* The texts the handlers pass to followup.send
MsgNotConnected == "You haven't connected your Google Calendar yet!"
MsgConnectFirst == "You need to connect your calendar first"
MsgFetchError == "An error occurred while trying to fetch your calendar events."
MsgCreateError == "Sorry, an error occurred while creating the event."
MsgNoEvents == "You have no upcoming events found."
MsgEventList == "Your upcoming events"
MsgClarify == "Sorry, I couldn't understand that date and time."
MsgCreated == "Event created successfully"
MsgLinkSent == "I've sent you a private message with your connection link."
MsgDmRefused == "I couldn't send you a DM."

VARIABLES
    tableExists,    \* the google_tokens table has been created
    google_tokens,  \* the rows of the table
    issued,         \* how many access tokens the provider issued to this process
    clock,          \* the tokens numbered <= clock have passed their expiry
    inflight,       \* the bag of handler invocations inside get_calendar_service
    last,           \* the handler invocation that has just ended ({}: none)
    web,            \* the web thread serving /oauth2callback
    session         \* the browser's Flask session (the signed cookie)

vars == <<tableExists, google_tokens, issued, clock, inflight, last, web, session>>

\* ------------------------------------------------------------- the table
\* cur.execute("SELECT token_json ... WHERE user_id = %s"); cur.fetchone()
Select(rows, u) ==
    LET found == {r.token_json : r \in {x \in rows : x.user_id = u}}
    IN  IF found = {} THEN {} ELSE {CHOOSE b \in found : TRUE}

\* Mutant of Upsert: a plain INSERT into a table without the primary key.
UpsertAppend(rows, u, b) == rows \cup {[user_id |-> u, token_json |-> b]}

\* INSERT ... ON CONFLICT (user_id) DO UPDATE SET token_json = %s
Upsert(rows, u, b) ==
    {r \in rows : r.user_id # u} \cup {[user_id |-> u, token_json |-> b]}

\* Mutant of DeleteRow: the WHERE clause inverted.
DeleteOtherRows(rows, u) == {r \in rows : r.user_id = u}

\* Mutant of DeleteRow: the DELETE is never committed.
DeleteRowUncommitted(rows, u) == rows

\* DELETE FROM google_tokens WHERE user_id = %s
DeleteRow(rows, u) == {r \in rows : r.user_id # u}

\* ------------------------------------------------------------ credentials
\* creds.expired: the access token's expiry has passed
Expired(b, clk) == b.tok <= clk

\* Mutant of Valid: the test of the expiry inverted.
ValidInverted(b, clk) == Expired(b, clk)

\* creds.valid: a token that has not expired
Valid(b, clk) == ~Expired(b, clk)

\* creds and creds.expired and creds.refresh_token
CanRefresh(b, clk) == Expired(b, clk) /\ b.rt

\* creds.refresh(Request()) then creds.to_json(): the n-th issued token,
\* the refresh token kept
Refreshed(b, n) == [b EXCEPT !.tok = n, !.grant = "refresh"]

\* ------------------------------------------------------------ the handlers
\* The record of one invocation of a command handler.  cmd is the command
\* and when the time expression given to addevent ("" while the invocation is
\* inside get_calendar_service, see WithArgs); duration is duration_minutes as
\* the handler reads it to compute the event's end; result, creds, service and conn are the locals of
\* get_calendar_service (fetched: fetchone has returned result; conn: the
\* connection of line 75 has been opened and conn.close() has not been
\* called on it); outcome says
\* whether get_calendar_service has returned or raised; refresh, upserted and
\* removed record what the call did (the outcome of creds.refresh, the blob it
\* wrote, the blob its write replaced or deleted); said, delivered, apiCalls,
\* window, logged and escaped record what the handler did (the texts passed to
\* followup.send, those delivered, the calendar API calls, the inserted
\* event's start and end, logging.error, an exception leaving the handler);
\* onLoop counts the blocking calls (database, calendar API, date parser) the
\* handler made on the event loop's thread, not through asyncio.to_thread.
NewCall(u) ==
    [cmd |-> "", user |-> u, when |-> "", duration |-> DefaultDuration,
     pc |-> "select",
     fetched |-> FALSE, result |-> {}, creds |-> {}, service |-> {},
     conn |-> FALSE,
     outcome |-> "pending", refresh |-> "none", upserted |-> {}, removed |-> {},
     said |-> <<>>, delivered |-> <<>>, apiCalls |-> 0, window |-> <<>>,
     logged |-> FALSE, escaped |-> FALSE, onLoop |-> 0]

IdleWeb == [pc |-> "idle", uid |-> {}, creds |-> {}, status |-> 0, wrote |-> {}]

Init ==
    /\ tableExists \in BOOLEAN
    /\ google_tokens \in
         {rows \in SUBSET [user_id : Users, token_json : InitialBlobs] :
            /\ tableExists \/ rows = {}
            /\ \A r1, r2 \in rows : r1.user_id = r2.user_id => r1 = r2}
    /\ issued = 0
    /\ clock = -1
    /\ inflight = EmptyBag
    /\ last = {}
    /\ web = IdleWeb
    /\ session = [user_id |-> {}, state |-> FALSE]

\* The outcome of an invocation (last, or the web record with pc = "done")
\* is observed in the state that follows its last step; the step that clears
\* it comes before any other step, so that the outcomes of finished
\* invocations do not multiply the states.
Quiet == web.pc # "done" /\ last = {}

\* A handler task can start: the tasks are interchangeable, so those inside
\* get_calendar_service are kept as a bag.
FreeTask == BagCardinality(inflight) < NumHandlers

\* The invocation c of the bag goes on as c2, or ends as c2.
Step(c, c2) ==
    IF c2.pc = "done"
    THEN /\ inflight' = inflight (-) SetToBag({c})
         /\ last' = {c2}
    ELSE /\ inflight' = (inflight (-) SetToBag({c})) (+) SetToBag({c2})
         /\ UNCHANGED last

\* ------------------------------------------------- replies of a handler
GenericError(c) == IF c.cmd = "events" THEN MsgFetchError ELSE MsgCreateError

\* The handler's "except Exception" block: logging.error, then
\* followup.send(generic message), which is delivered (d2) or raises and
\* leaves the handler.
Except(c, d2) ==
    [c EXCEPT !.pc = "done", !.logged = TRUE,
              !.said = Append(@, GenericError(c)),
              !.delivered = IF d2 THEN Append(@, GenericError(c)) ELSE @,
              !.escaped = ~d2]

\* followup.send(msg) inside the try block, then return: delivered (d1), or
\* it raises into the except block.
Reply(c, msg, d1, d2) ==
    IF d1
    THEN [c EXCEPT !.pc = "done", !.said = Append(@, msg),
                   !.delivered = Append(@, msg)]
    ELSE Except([c EXCEPT !.said = Append(@, msg)], d2)

\* Mutant of ParseDate: every text is taken for a time.
ParseAnything(w) == {1980}

\* dateparser.parse(when): a time in minutes, or None
ParseDate(w) == IF w = "tomorrow at 9am" THEN {1980} ELSE {}

\* Mutant of EndTime: the end is always the default duration after the start.
EndTimeDefault(start, duration) == start + DefaultDuration

\* start_time + datetime.timedelta(minutes=duration_minutes)
EndTime(start, duration) == start + duration

\* The outcomes of the list call: it raises, or returns no items, or items,
\* or items of which one has no 'summary'.
ApiOutcomes == {"fault", "empty", "items", "untitled"}

\* The outcomes of the insert call: it raises, or returns the created event.
InsertOutcomes == {"fault", "created"}

\* What the environment does to a handler: the command the user ran, the
\* arguments the user gave addevent, the outcome of the calendar API call,
\* and whether the followup.send of the try block (d1) and of the except
\* block (d2) deliver.
Envs ==
    [cmd : {"events"}, api : ApiOutcomes, d1 : BOOLEAN, d2 : BOOLEAN]
    \cup [cmd : {"addevent"}, when : Whens, duration : Durations,
          api : InsertOutcomes, d1 : BOOLEAN, d2 : BOOLEAN]

\* events after "if not service": service.events().list(...).execute on a
\* worker thread, the formatting (KeyError on an item without 'summary'),
\* the reply.
ListEvents(c, e) ==
    LET c1 == [c EXCEPT !.apiCalls = @ + 1]
    IN  CASE e.api = "empty" -> Reply(c1, MsgNoEvents, e.d1, e.d2)
          [] e.api = "items" -> Reply(c1, MsgEventList, e.d1, e.d2)
          [] OTHER -> Except(c1, e.d2)

\* addevent after "if not service": dateparser.parse, the clarification when
\* it returns None, else the event's start and end, the insert call on a
\* worker thread and the reply with the created event's htmlLink.
AddEvent(c, e) ==
    LET start == ParseDate(c.when)
        t == CHOOSE x \in start : TRUE
        c1 == [c EXCEPT !.duration = e.duration, !.apiCalls = @ + 1,
                        !.window = <<t, EndTime(t, e.duration)>>]
    IN  IF start = {} THEN Reply(c, MsgClarify, e.d1, e.d2)
        ELSE IF e.api = "fault" THEN Except(c1, e.d2)
        ELSE Reply(c1, MsgCreated, e.d1, e.d2)

\* The command and the time expression of the invocation.  events and
\* addevent call the same get_calendar_service(interaction.user.id), and no
\* step of it reads them, so the record takes them when the handler goes on:
\* the invocations inside get_calendar_service are told apart only by what
\* get_calendar_service has done.
WithArgs(c, e) ==
    IF e.cmd = "addevent"
    THEN [c EXCEPT !.cmd = e.cmd, !.when = e.when]
    ELSE [c EXCEPT !.cmd = e.cmd]

\* Mutant of Handle: "if not service" is missing, so that service.events()
\* on None raises into the except block.
HandleUnchecked(c0, e) ==
    LET c == WithArgs(c0, e)
    IN  IF c.outcome = "raised" \/ c.service = {} THEN Except(c, e.d2)
        ELSE IF c.cmd = "events" THEN ListEvents(c, e)
        ELSE AddEvent(c, e)

\* The handler from the point where get_calendar_service has returned or
\* raised: the except block, "if not service", or the command's own work.
\* None of it touches the table, the provider's tokens or the session.
Handle(c0, e) ==
    LET c == WithArgs(c0, e)
    IN  IF c.outcome = "raised" THEN Except(c, e.d2)
        ELSE IF c.service = {}
        THEN Reply(c, IF c.cmd = "events" THEN MsgNotConnected
                                          ELSE MsgConnectFirst, e.d1, e.d2)
        ELSE IF c.cmd = "events" THEN ListEvents(c, e)
        ELSE AddEvent(c, e)

\* The ways the handler can go on from c, one per environment.
Outcomes(c) == {Handle(c, e) : e \in Envs}

\* interaction.response.defer raised: it is outside the try block.
DeferFailed(c) == [c EXCEPT !.pc = "done", !.escaped = TRUE]

\* --------------------------------------------- get_calendar_service(user_id)
\* What can go wrong in the first statements: psycopg2.connect raises, or
\* cur.execute does.
Faults == {"none", "connect", "execute"}

\* An exception leaves get_calendar_service.
Raise(c) == [c EXCEPT !.outcome = "raised", !.pc = "after"]

\* Mutant of NoRow: "if not result" is missing, so that result[0] raises.
NoRowRaises(c) == Raise(c)

\* "if not result": cur.close, conn.close, return None.
NoRow(c) == [c EXCEPT !.conn = FALSE, !.outcome = "returned", !.pc = "after"]

\* The else branch, "return None # Needs re-authentication": the blob is not
\* valid and cannot be refreshed.  The connection is left open.
NeedsReauth(c) == [c EXCEPT !.outcome = "returned", !.pc = "after"]

\* Mutant of ReturnService: the service is built on the credentials as read,
\* not as refreshed.
ReturnStaleService(c) ==
    [c EXCEPT !.conn = FALSE, !.service = c.result, !.outcome = "returned",
              !.pc = "after"]

\* cur.close, conn.close, build(..., credentials=creds), return service.
ReturnService(c) ==
    [c EXCEPT !.conn = FALSE, !.service = c.creds, !.outcome = "returned",
              !.pc = "after"]

\* psycopg2.connect, the SELECT, fetchone, json.loads,
\* from_authorized_user_info and the test of creds.valid, up to the first
\* call that leaves the process (creds.refresh) or the return.
SelectStep(c, rows, exists, clk, fault) ==
    LET result == Select(rows, c.user)
        b == CHOOSE x \in result : TRUE
        c1 == [c EXCEPT !.conn = TRUE]
        c2 == [c1 EXCEPT !.fetched = TRUE, !.result = result]
        c3 == [c2 EXCEPT !.creds = result]
    IN  IF fault = "connect" THEN Raise(c)
        ELSE IF fault = "execute" \/ ~exists THEN Raise(c1)
        ELSE IF result = {} THEN NoRow(c2)
        ELSE IF ~b.ok THEN Raise(c2)
        ELSE IF Valid(b, clk) THEN ReturnService(c3)
        ELSE IF CanRefresh(b, clk) THEN [c3 EXCEPT !.pc = "refresh"]
        ELSE NeedsReauth(c3)

\* creds.refresh(Request()) succeeded: the credentials carry the n-th token.
RefreshOk(c, n) ==
    [c EXCEPT !.creds = {Refreshed(b, n) : b \in @}, !.refresh = "ok",
              !.pc = "save"]

\* creds.refresh raised: the except block logs and goes on to the DELETE.
RefreshFailed(c) ==
    [c EXCEPT !.refresh = "failed", !.logged = TRUE, !.pc = "delete"]

\* save_user_token committed, replacing the row `rows` held for the user.
SaveOk(c, rows) ==
    ReturnService([c EXCEPT !.upserted = c.creds,
                            !.removed = Select(rows, c.user) \ c.creds])

\* save_user_token raised inside the try block: the same except block.
SaveFailed(c) == [c EXCEPT !.logged = TRUE, !.pc = "delete"]

\* The DELETE committed, removing the row `rows` held for the user:
\* return None, the first connection left open.
DeleteOk(c, rows) ==
    [c EXCEPT !.removed = Select(rows, c.user), !.outcome = "returned",
              !.pc = "after"]

\* The DELETE raised inside the except block: get_calendar_service raises.
DeleteFailed(c) == Raise(c)

\* ------------------------------------------------------ command handlers
\* A user runs /events or /addevent (which of them: see WithArgs):
\* interaction.response.defer (outside the try block: when it raises, the
\* exception leaves the handler), then asyncio.to_thread(get_calendar_service,
\* ...) up to its return or its call of creds.refresh.
Invoke ==
    /\ Quiet
    /\ FreeTask
    /\ \E u \in Users :
         \/ /\ \E c \in {DeferFailed(WithArgs(NewCall(u), e)) : e \in Envs} :
                 last' = {c}
            /\ UNCHANGED inflight
         \/ \E c1 \in {SelectStep(NewCall(u), google_tokens, tableExists,
                                  clock, fault) : fault \in Faults} :
              IF c1.pc = "refresh"
              THEN /\ inflight' = inflight (+) SetToBag({c1})
                   /\ UNCHANGED last
              ELSE /\ \E c2 \in Outcomes(c1) : last' = {c2}
                   /\ UNCHANGED inflight
    /\ UNCHANGED <<tableExists, google_tokens, issued, clock, web, session>>

\* The body of connect: defer raises or not (deferOk); the private message
\* is sent, refused with discord.Forbidden, or fails otherwise (dm); the
\* followup.send is delivered or raises (d).
ConnectOutcome(c, deferOk, dm, d) ==
    LET msg == IF dm = "sent" THEN MsgLinkSent ELSE MsgDmRefused
    IN  IF ~deferOk \/ dm = "error"
        THEN [c EXCEPT !.cmd = "connect", !.pc = "done", !.escaped = TRUE]
        ELSE [c EXCEPT !.cmd = "connect", !.pc = "done", !.said = <<msg>>,
                       !.delivered = IF d THEN <<msg>> ELSE <<>>,
                       !.escaped = ~d]

\* /connect: defer, interaction.user.send(link), then followup.send.  Only
\* discord.Forbidden is caught; any other exception leaves the handler.
Connect ==
    /\ Quiet
    /\ FreeTask
    /\ \E u \in Users :
         \E c \in {ConnectOutcome(NewCall(u), deferOk, dm, d) :
                     deferOk \in BOOLEAN, dm \in {"sent", "forbidden", "error"},
                     d \in BOOLEAN} :
            last' = {c}
    /\ UNCHANGED <<tableExists, google_tokens, issued, clock, inflight, web,
                   session>>

\* creds.refresh(Request()): the provider issues a new access token, or the
\* call raises.
ResolveRefresh ==
    /\ Quiet
    /\ \E c \in BagToSet(inflight) :
         /\ c.pc = "refresh"
         /\ \/ /\ issued < MaxTokens
               /\ issued' = issued + 1
               /\ Step(c, RefreshOk(c, issued + 1))
            \/ /\ Step(c, RefreshFailed(c))
               /\ UNCHANGED issued
    /\ UNCHANGED <<tableExists, google_tokens, clock, web, session>>

\* save_user_token(user_id, creds.to_json()) on a connection of its own, and
\* on from there: to the return and the rest of the handler, or into the
\* except block.
ResolveSave ==
    /\ Quiet
    /\ \E c \in BagToSet(inflight) :
         /\ c.pc = "save"
         /\ \/ /\ tableExists
               /\ google_tokens' = Upsert(google_tokens, c.user,
                                          CHOOSE b \in c.creds : TRUE)
               /\ \E c2 \in Outcomes(SaveOk(c, google_tokens)) : Step(c, c2)
            \/ /\ Step(c, SaveFailed(c))
               /\ UNCHANGED google_tokens
    /\ UNCHANGED <<tableExists, issued, clock, web, session>>

\* The except block of get_calendar_service: the DELETE on the connection
\* opened first, commit, return None; and the rest of the handler.
ResolveDelete ==
    /\ Quiet
    /\ \E c \in BagToSet(inflight) :
         /\ c.pc = "delete"
         /\ \/ /\ google_tokens' = DeleteRow(google_tokens, c.user)
               /\ \E c2 \in Outcomes(DeleteOk(c, google_tokens)) : Step(c, c2)
            \/ /\ \E c2 \in Outcomes(DeleteFailed(c)) : Step(c, c2)
               /\ UNCHANGED google_tokens
    /\ UNCHANGED <<tableExists, issued, clock, web, session>>

\* The handler task has ended.
Finish ==
    /\ last # {}
    /\ last' = {}
    /\ UNCHANGED <<tableExists, google_tokens, issued, clock, inflight, web,
                   session>>

\* ------------------------------------------------------------ web routes
\* GET /connect_google?user_id=...: 400 without user_id; else the session
\* takes user_id and the flow's state.
ConnectGoogle ==
    /\ Quiet
    /\ \E arg \in {{}} \cup {{u} : u \in Users} :
         session' = IF arg = {} THEN session
                    ELSE [user_id |-> arg, state |-> TRUE]
    /\ UNCHANGED <<tableExists, google_tokens, issued, clock, inflight, last,
                   web>>

\* GET /oauth2callback up to flow.fetch_token: session['state'] raises
\* KeyError without a session; the exchange raises, or yields credentials.
CallbackExchange ==
    /\ Quiet
    /\ web.pc = "idle"
    /\ \/ /\ ~session.state
          /\ web' = [IdleWeb EXCEPT !.pc = "done", !.status = 500]
          /\ UNCHANGED issued
       \/ /\ session.state
          /\ web' = [IdleWeb EXCEPT !.pc = "done", !.status = 500]
          /\ UNCHANGED issued
       \/ /\ session.state
          /\ issued < MaxTokens
          /\ issued' = issued + 1
          /\ \E rt \in BOOLEAN :
               web' = [IdleWeb EXCEPT
                         !.pc = "save", !.uid = session.user_id,
                         !.creds = {[tok |-> issued + 1, rt |-> rt, ok |-> TRUE,
                                     grant |-> "code"]}]
    /\ UNCHANGED <<tableExists, google_tokens, clock, inflight, last, session>>

\* The rest of oauth2callback: 400 without user_id, else save_user_token and
\* the success page; a fault of save_user_token gives the 500 page.
CallbackSave ==
    /\ Quiet
    /\ web.pc = "save"
    /\ \E fault \in BOOLEAN :
         IF web.uid = {}
         THEN /\ web' = [web EXCEPT !.pc = "done", !.status = 400]
              /\ UNCHANGED google_tokens
         ELSE IF fault \/ ~tableExists
         THEN /\ web' = [web EXCEPT !.pc = "done", !.status = 500]
              /\ UNCHANGED google_tokens
         ELSE /\ google_tokens' =
                   Upsert(google_tokens, CHOOSE u \in web.uid : TRUE,
                          CHOOSE b \in web.creds : TRUE)
              /\ web' = [web EXCEPT !.pc = "done", !.status = 200,
                                    !.wrote = web.creds]
    /\ UNCHANGED <<tableExists, issued, clock, inflight, last, session>>

\* The response has been sent.
CallbackFinish ==
    /\ web.pc = "done"
    /\ web' = IdleWeb
    /\ UNCHANGED <<tableExists, google_tokens, issued, clock, inflight, last,
                   session>>

\* ------------------------------------------------------------ environment
\* The record of an invocation of on_ready (it has no user: 0), which calls
\* init_db() directly, on the event loop's thread; init_db logs a fault and
\* swallows it.
OnReady(fault) ==
    [NewCall(0) EXCEPT !.cmd = "on_ready", !.pc = "done", !.onLoop = 1,
                       !.logged = fault]

\* on_ready: init_db creates the table if it does not exist (CREATE TABLE IF
\* NOT EXISTS: the rows of an existing table stay); a fault is logged and
\* swallowed.
InitDb ==
    /\ Quiet
    /\ \E fault \in BOOLEAN :
         /\ tableExists' = (tableExists \/ ~fault)
         /\ last' = {OnReady(fault)}
    /\ UNCHANGED <<google_tokens, issued, clock, inflight, web, session>>

\* Time passes: the oldest unexpired access token reaches its expiry.
Expire ==
    /\ Quiet
    /\ clock < issued
    /\ clock' = clock + 1
    /\ UNCHANGED <<tableExists, google_tokens, issued, inflight, last, web,
                   session>>

Next ==
    \/ Invoke
    \/ Connect
    \/ ResolveRefresh
    \/ ResolveSave
    \/ ResolveDelete
    \/ Finish
    \/ ConnectGoogle
    \/ CallbackExchange
    \/ CallbackSave
    \/ CallbackFinish
    \/ InitDb
    \/ Expire

Spec == Init /\ [][Next]_vars

\* ================================================================ claims
\* get_calendar_service was called by the invocation c and has returned.
Returned(c) == c.outcome = "returned"

\* The row the table holds for the user of invocation c.
Stored(c) == Select(google_tokens, c.user)

\* The 'not connected' prompt of a command.
Prompt(cmd) == IF cmd = "events" THEN MsgNotConnected ELSE MsgConnectFirst

\* The first text the handler passed to followup.send.
FirstSaid(c) == IF c.said = <<>> THEN "" ELSE c.said[1]

\* C1: whenever get_calendar_service returns after a refresh exchange that
\* succeeded, it returns a service built on the refreshed credentials and the
\* table holds the refreshed blob for the user.
C1_RefreshedBlobStoredAndUsable ==
    \A c \in last :
        (Returned(c) /\ c.refresh = "ok")
            => (c.service # {} /\ c.service = c.creds /\ Stored(c) = c.creds)

\* C2: whenever get_calendar_service returns after the refresh of an expired
\* blob failed, the table holds no row for the user and the call returned
\* None (the code's NeedsReauth).
C2_FailedRefreshDeletesRow ==
    \A c \in last :
        (Returned(c) /\ c.refresh = "failed")
            => (Stored(c) = {} /\ c.service = {})

C2_Witness ==
    \E c \in last :
        /\ Returned(c) /\ c.refresh = "failed"
        /\ \E b \in c.result : b.rt /\ b.tok <= clock
        /\ c.removed = c.result
        /\ Stored(c) = {} /\ c.service = {}

\* C3: whenever get_calendar_service has read a blob that is valid (its token
\* has not expired), it returns a service built on that blob, has attempted
\* no refresh, has written and deleted nothing, and the table holds the blob
\* as before.
C3_ValidBlobUsableStoreUntouched ==
    \A c \in last : \A b \in c.result :
        (b.ok /\ b.tok > clock)
            => /\ Returned(c) /\ c.service = {b}
               /\ c.refresh = "none" /\ c.upserted = {} /\ c.removed = {}
               /\ Stored(c) = {b}

C3_Witness ==
    \E c \in last : \E b \in c.result :
        /\ b.ok /\ b.tok > clock
        /\ Returned(c) /\ c.service = {b} /\ Stored(c) = {b}
        /\ c.refresh = "none"

\* C4: whenever get_calendar_service has run its SELECT and found no row for
\* the user, it returns None, has attempted no refresh, has written and
\* deleted nothing, and the table still holds no row for the user.
C4_NoRowNotConnected ==
    \A c \in last :
        (c.fetched /\ c.result = {})
            => /\ Returned(c) /\ c.service = {} /\ c.refresh = "none"
               /\ c.upserted = {} /\ c.removed = {}
               /\ Stored(c) = {}

C4_Witness ==
    \E c \in last :
        /\ c.fetched /\ c.result = {}
        /\ Returned(c) /\ c.service = {} /\ Stored(c) = {}

\* C5 as claimed: the caller can tell "a row is stored but it is expired and
\* cannot be refreshed" from "no row": when get_calendar_service returns None
\* although it read a row, the handler's reply is not the 'not connected'
\* prompt it gives a user who has no row.
C5_NeedsReauthDistinguished ==
    \A c \in last :
        (Returned(c) /\ c.service = {} /\ c.result # {})
            => FirstSaid(c) # Prompt(c.cmd)

\* C5 as amended: get_calendar_service returns one of two things, a service
\* built on its credentials or None; None stands for "no row" and for "a row
\* that is expired and not refreshed" alike, the handler answers None with
\* the same 'not connected' prompt in both cases, and a service with
\* something else.
C5_TwoOutcomes ==
    \A c \in last :
        Returned(c)
            => /\ c.service = {} \/ (c.service = c.creds /\ c.creds # {})
               /\ c.service = {} => FirstSaid(c) = Prompt(c.cmd)
               /\ c.service # {} => FirstSaid(c) # Prompt(c.cmd)

C5_Witness ==
    \E c \in last :
        /\ Returned(c) /\ c.service = {}
        /\ \E b \in c.result : ~b.rt /\ b.tok <= clock
        /\ c.refresh = "none"
        /\ FirstSaid(c) = Prompt(c.cmd)

\* C6: a DELETE of get_calendar_service never removes a blob that another call
\* upserted after a successful refresh: when it removes a refreshed blob, that
\* blob is the one the call itself read.
C6_RefreshedBlobNotDeletedByOtherCall ==
    \A c \in last : \A b \in c.removed :
        (c.upserted = {} /\ b.grant = "refresh") => b \in c.result

\* C7: a write of get_calendar_service (its upsert or its DELETE) never removes
\* a blob that oauth2callback stored after the call read the row: when it
\* replaces or deletes a blob of an authorization, that blob is the one the
\* call itself read.
C7_AuthorizedBlobNotLostToStaleResolve ==
    \A c \in last : \A b \in c.removed :
        b.grant = "code" => b \in c.result

\* C8: every invocation of a command handler ends with a reply delivered (for
\* oauth2callback: a status page returned) and no exception leaving the
\* handler.
C8_NoFaultLeavesAHandler ==
    /\ \A c \in last : c.cmd # "on_ready" => ~c.escaped /\ c.delivered # <<>>
    /\ web.pc = "done" => web.status \in {200, 400, 500}

\* C9: whenever get_calendar_service returns None to events or addevent, the
\* handler makes no calendar API call and passes the 'not connected' prompt to
\* followup.send; the prompt is the reply unless that send itself raises.
C9_NotConnectedPromptNoApiCall ==
    \A c \in last :
        (Returned(c) /\ c.service = {})
            => /\ c.apiCalls = 0 /\ c.window = <<>>
               /\ FirstSaid(c) = Prompt(c.cmd)
               /\ c.delivered = <<Prompt(c.cmd)>> \/ Len(c.said) = 2

C9_Witness ==
    \E c \in last :
        /\ c.cmd = "events" /\ c.fetched /\ c.result = {}
        /\ Returned(c) /\ c.service = {}
        /\ c.apiCalls = 0 /\ c.delivered = <<MsgNotConnected>>

\* The chat transport and the table worked throughout the invocation c.
NoFault(c) == c.outcome # "raised" /\ ~c.escaped /\ Len(c.said) = 1

\* C10 as claimed: whenever addevent is invoked with a time expression the
\* parser cannot parse (and nothing else fails), the reply is the
\* clarification, no insert call is made and no error is logged.
C10_UnparseableGetsClarification ==
    \A c \in last :
        (c.cmd = "addevent" /\ c.when = "asdkjhasd" /\ NoFault(c))
            => /\ c.delivered = <<MsgClarify>>
               /\ c.apiCalls = 0 /\ ~c.logged

\* C10 as amended: whenever addevent is invoked with a time expression the
\* parser cannot parse by a user for whom get_calendar_service returns a
\* service, the handler passes the clarification to followup.send and makes
\* no insert call; the clarification is the reply and no error is logged
\* unless that send itself raises.
C10_UnparseableWithServiceGetsClarification ==
    \A c \in last :
        (c.cmd = "addevent" /\ c.when = "asdkjhasd" /\ Returned(c)
                            /\ c.service # {})
            => /\ FirstSaid(c) = MsgClarify
               /\ c.apiCalls = 0 /\ c.window = <<>>
               /\ (c.delivered = <<MsgClarify>> /\ ~c.logged) \/ Len(c.said) = 2

C10_Witness ==
    \E c \in last :
        /\ c.cmd = "addevent" /\ c.when = "asdkjhasd"
        /\ Returned(c) /\ c.service # {}
        /\ c.delivered = <<MsgClarify>> /\ c.apiCalls = 0 /\ ~c.logged

MissingSession == ~session.state \/ session.user_id = {}

\* C12: whenever oauth2callback has returned, the status is 200, 400 or 500;
\* it is 400 when the session or the user identity in it is missing; with 200
\* the table holds the exchanged blob for the user; with 400 and 500 the
\* callback has written nothing.
C12_CallbackStatusPages ==
    web.pc = "done"
        => /\ web.status \in {200, 400, 500}
           /\ MissingSession => web.status = 400
           /\ web.status = 200
                 => /\ web.wrote # {} /\ web.wrote = web.creds
                    /\ \A u \in web.uid : Select(google_tokens, u) = web.wrote
           /\ web.status # 200 => web.wrote = {}

\* The rows the table holds for user u.
RowsOf(u) == {r \in google_tokens : r.user_id = u}

\* C13: the table holds at most one row per user_id, and when
\* get_calendar_service or oauth2callback has written a blob for a user, the
\* user's rows are that one blob.
C13_OneRowPerUser ==
    /\ \A r1, r2 \in google_tokens : r1.user_id = r2.user_id => r1 = r2
    /\ \A c \in last : \A b \in c.upserted :
           RowsOf(c.user) = {[user_id |-> c.user, token_json |-> b]}
    /\ (web.pc = "done" /\ web.status = 200)
           => \A u \in web.uid : \A b \in web.wrote :
                  RowsOf(u) = {[user_id |-> u, token_json |-> b]}

C13_Witness ==
    \E c \in last :
        /\ c.upserted # {} /\ c.removed # {}
        /\ c.removed \cap c.upserted = {}
        /\ RowsOf(c.user) = {[user_id |-> c.user, token_json |-> b] :
                                b \in c.upserted}

\* C14: get_calendar_service deletes a user's row only when the refresh of
\* the expired credential has failed: when a call has removed a row without
\* writing one, its creds.refresh raised.
C14_RowDeletedOnlyOnFailedRefresh ==
    \A c \in last :
        (c.removed # {} /\ c.upserted = {}) => c.refresh = "failed"

\* C15: a successful authorization reconnects the user: when oauth2callback
\* has returned 200 the table holds the exchanged blob for the user; the row
\* stays while that blob's token is valid (no DELETE of get_calendar_service
\* removes it); and a get_calendar_service that reads it while it is valid
\* returns a service built on it.
C15_AuthorizedRowUsableWhileValid ==
    /\ (web.pc = "done" /\ web.status = 200)
           => \A u \in web.uid : Select(google_tokens, u) = web.creds
    /\ \A c \in last : \A b \in c.result :
           (b.grant = "code" /\ b.tok > clock) => c.service = {b}
    /\ \A c \in last : \A b \in c.removed :
           ~(c.upserted = {} /\ b.grant = "code" /\ b.tok > clock)

\* C16: no statement is run against the table before it exists: when
\* get_calendar_service has opened its connection and run its SELECT, or
\* oauth2callback has called save_user_token, init_db has created the table.
C16_TableExistsBeforeUse ==
    /\ \A c \in last : (c.conn \/ c.fetched) => tableExists
    /\ (web.pc = "done" /\ web.creds # {} /\ web.uid # {}) => tableExists

\* C17: no handler of the bot makes a blocking call on the event loop's
\* thread.
C17_BlockingCallsOffloaded ==
    \A c \in last : c.onLoop = 0

\* C18: save_user_token(u, b) performed again right after it was performed
\* leaves the table as it is, for the writes of get_calendar_service and of
\* oauth2callback and for every row the table holds; and the DELETE for a
\* user who has no row (0: a user the table has never seen) leaves the table
\* as it is.
C18_UpsertDeleteIdempotent ==
    /\ \A c \in last : \A b \in c.upserted :
           Upsert(google_tokens, c.user, b) = google_tokens
    /\ (web.pc = "done" /\ web.status = 200)
           => \A u \in web.uid : \A b \in web.wrote :
                  Upsert(google_tokens, u, b) = google_tokens
    /\ \A r \in google_tokens :
           Upsert(google_tokens, r.user_id, r.token_json) = google_tokens
    /\ \A u \in Users \cup {0} :
           Select(google_tokens, u) = {}
               => DeleteRow(google_tokens, u) = google_tokens

\* A DELETE of get_calendar_service found no row (another call had deleted
\* it) and the call went on to return None.
C18_Witness ==
    \E c \in last :
        /\ c.refresh = "failed" /\ Returned(c)
        /\ c.result # {} /\ c.removed = {} /\ c.upserted = {}
        /\ Stored(c) = {}

\* C19: whenever get_calendar_service has read a blob that does not
\* deserialize, it returns None, and the handler passes the 'not connected'
\* prompt to followup.send and makes no calendar API call.
C19_CorruptBlobNotConnected ==
    \A c \in last : \A b \in c.result :
        ~b.ok => /\ Returned(c) /\ c.service = {}
                 /\ FirstSaid(c) = Prompt(c.cmd)
                 /\ c.apiCalls = 0

\* C20: whenever get_calendar_service has returned, the connection it opened
\* has been closed.
C20_ConnectionClosedOnReturn ==
    \A c \in last : Returned(c) => ~c.conn

====
